---- MODULE Spec2Model ----
(***************************************************************************)
(* Model of the instance provisioning (pkg/management/postgres/initdb.go)  *)
(* and of the "instance restore" subcommand                                *)
(* (internal/cmd/manager/instance/restore/cmd.go).                         *)
(*                                                                         *)
(* One run of the model is one process invocation: either a caller that    *)
(* uses the exported methods of InitInfo (VerifyConfiguration, Bootstrap), *)
(* or the cobra "restore" command (PreRunE, RunE, PostRunE).               *)
(***************************************************************************)
EXTENDS Naturals, Integers, Sequences, FiniteSets, TLC

VARIABLES
    mode,          \* "bootstrap" or "restore": which entry point this process runs
    info,          \* the InitInfo value (immutable once built)
    fsys,          \* the filesystem: input files, failing stats, the data directory
    pc,            \* position of the process
    trace,         \* the calls made so far, in order
    verifyResult,  \* what VerifyConfiguration returned to the caller (VNone before)
    majorVersion,  \* result of postgres.GetMajorVersion (0 before / on failure)
    instance,      \* the transient PostgreSQL instance: "stopped" or "running"
    db,            \* the SQL statements committed on the transient instance
    fnErr,         \* the error the closure given to WithActiveInstance returns
    stageFailed,   \* the stages that reported an error to their caller, in order
    stageErr,      \* the local err of Bootstrap: what its last stage returned
    cancelled,     \* the external cancellation signal has been raised
    result,        \* the error the entry point returned (meaningful once pc = "done")
    restoreErr,    \* the error returned by info.Restore
    wal            \* the WAL directory (info.PgWal)

vars == <<mode, info, fsys, pc, trace, verifyResult, majorVersion, instance, db,
          fnErr, stageFailed, stageErr, cancelled, result, restoreErr, wal>>

----------------------------------------------------------------------------
(* Bounds of the model *)

\* how many paths may answer os.Stat with an error other than "not exist"
MaxStatFails == 1
\* the engine major versions tried
MinVersion == 11
MaxVersion == 13
\* the longest error chain info.Restore returns (an error and what it wraps)
MaxErrChain == 2

----------------------------------------------------------------------------
(* Values *)

\* An error is the chain of an error value and the errors it wraps, outermost
\* first; the nil error is the empty chain.
Nil == <<>>
NewError(msg) == <<[type |-> "errorString", retriable |-> FALSE, msg |-> msg]>>
\* errors.Wrap(err, msg)
Wrap(err, msg) == <<[type |-> "withMessage", retriable |-> FALSE, msg |-> msg]>> \o err

FilePaths == {"pwfile", "apppwfile", "hba", "conf"}
AllPaths == FilePaths \cup {"pgdata"}

NoDir == [exists |-> FALSE, pg_hba |-> <<>>, postgresql_conf |-> <<>>, base |-> <<>>]
\* a data directory left by an earlier run
OldDir == [exists |-> TRUE, pg_hba |-> <<"old_hba">>, postgresql_conf |-> <<"old_conf">>,
           base |-> <<"old_base">>]
\* what initdb generates
FreshDir == [exists |-> TRUE, pg_hba |-> <<"initdb_hba">>,
             postgresql_conf |-> <<"initdb_conf">>, base |-> <<"initdb_base">>]

ArchiveStanza == "archive_mode = on\narchive_command = '/controller/manager wal-archive %p'"

ReplicaMinVersion == 12

InitInfos ==
    [PgData : {"pgdata"},
     PasswordFile : {"pwfile"},
     ApplicationPasswordFile : {"apppwfile"},
     HBARulesFile : {"", "hba"},
     PostgreSQLConfigFile : {"", "conf"},
     ApplicationUser : {"", "app"},
     ApplicationDatabase : {"", "appdb"},
     ParentNode : {"parent"},
     ClusterName : {"cluster"}]

----------------------------------------------------------------------------
(* fileutils.FileExists: (exists, err) of a path *)
FileExists(fs, path) ==
    IF path \in fs.statFails
    THEN [exists |-> FALSE, err |-> TRUE]
    ELSE [exists |-> (IF path = "pgdata" THEN fs.dir.exists ELSE fs.files[path]),
          err |-> FALSE]

\* an error of VerifyConfiguration: the check that produced it and whether it is
\* the error of the stat call or the rule's own error
VErr(check, kind) == [check |-> check, kind |-> kind]
VNil == VErr(0, "nil")
VNone == VErr(0, "none")

\* VerifyConfiguration without the "PGData directories already exist" check
VerifyConfigurationNoPgData(i, fs) ==
    LET pw == FileExists(fs, i.PasswordFile)
        apw == FileExists(fs, i.ApplicationPasswordFile)
        hba == FileExists(fs, i.HBARulesFile)
        conf == FileExists(fs, i.PostgreSQLConfigFile)
    IN  IF pw.err THEN VErr(1, "stat")
        ELSE IF ~pw.exists THEN VErr(1, "rule")
        ELSE IF apw.err THEN VErr(2, "stat")
        ELSE IF ~apw.exists THEN VErr(2, "rule")
        ELSE IF Len(i.HBARulesFile) # 0 /\ hba.err THEN VErr(4, "stat")
        ELSE IF Len(i.HBARulesFile) # 0 /\ ~hba.exists THEN VErr(4, "rule")
        ELSE IF Len(i.PostgreSQLConfigFile) # 0 /\ conf.err THEN VErr(5, "stat")
        ELSE IF Len(i.PostgreSQLConfigFile) # 0 /\ ~conf.exists THEN VErr(5, "rule")
        ELSE IF Len(i.ApplicationUser) = 0 THEN VErr(6, "rule")
        ELSE IF Len(i.ApplicationDatabase) = 0 THEN VErr(7, "rule")
        ELSE VNil

\* VerifyConfiguration checking the two names before the files
VerifyConfigurationNamesFirst(i, fs) ==
    IF Len(i.ApplicationUser) = 0 THEN VErr(6, "rule")
    ELSE IF Len(i.ApplicationDatabase) = 0 THEN VErr(7, "rule")
    ELSE VerifyConfigurationNoPgData(i, fs)

VerifyConfiguration(i, fs) ==
    LET pw == FileExists(fs, i.PasswordFile)
        apw == FileExists(fs, i.ApplicationPasswordFile)
        pgdata == FileExists(fs, i.PgData)
        hba == FileExists(fs, i.HBARulesFile)
        conf == FileExists(fs, i.PostgreSQLConfigFile)
    IN  IF pw.err THEN VErr(1, "stat")
        ELSE IF ~pw.exists THEN VErr(1, "rule")
        ELSE IF apw.err THEN VErr(2, "stat")
        ELSE IF ~apw.exists THEN VErr(2, "rule")
        ELSE IF pgdata.err THEN VErr(3, "stat")
        ELSE IF pgdata.exists THEN VErr(3, "rule")
        ELSE IF Len(i.HBARulesFile) # 0 /\ hba.err THEN VErr(4, "stat")
        ELSE IF Len(i.HBARulesFile) # 0 /\ ~hba.exists THEN VErr(4, "rule")
        ELSE IF Len(i.PostgreSQLConfigFile) # 0 /\ conf.err THEN VErr(5, "stat")
        ELSE IF Len(i.PostgreSQLConfigFile) # 0 /\ ~conf.exists THEN VErr(5, "rule")
        ELSE IF Len(i.ApplicationUser) = 0 THEN VErr(6, "rule")
        ELSE IF Len(i.ApplicationDatabase) = 0 THEN VErr(7, "rule")
        ELSE VNil

----------------------------------------------------------------------------
(* fileutils.AppendFile / AppendStringToFile on a file of the data directory *)
AppendFile(dir, target, source) == [dir EXCEPT ![target] = Append(@, "contents of " \o source)]
AppendStringToFile(dir, target, content) == [dir EXCEPT ![target] = Append(@, content)]

\* the outcomes of the external steps of CreateDataDirectory (TRUE: the step
\* succeeds when its inputs are there)
StepOutcomes == [initdb : BOOLEAN, hba : BOOLEAN, conf : BOOLEAN, stanza : BOOLEAN]

\* CreateDataDirectory appending the archiving stanza only together with the
\* extra configuration
CreateDataDirectoryStanzaWithConfig(i, fs, out) ==
    LET initdbOk == out.initdb /\ ~fs.dir.exists /\ fs.files[i.PasswordFile]
        hbaSet == Len(i.HBARulesFile) # 0
        hbaOk == out.hba /\ fs.files[i.HBARulesFile]
        confSet == Len(i.PostgreSQLConfigFile) # 0
        confOk == out.conf /\ fs.files[i.PostgreSQLConfigFile]
        d0 == FreshDir
        d1 == IF hbaSet THEN AppendFile(d0, "pg_hba", i.HBARulesFile) ELSE d0
        d2 == IF confSet
              THEN AppendStringToFile(
                       AppendFile(d1, "postgresql_conf", i.PostgreSQLConfigFile),
                       "postgresql_conf", ArchiveStanza)
              ELSE d1
        s0 == <<"initdb">>
        s1 == IF hbaSet THEN Append(s0, "AppendFile pg_hba.conf") ELSE s0
        s2 == IF confSet THEN Append(s1, "AppendFile postgresql.conf") ELSE s1
    IN  IF ~initdbOk
        THEN [err |-> Wrap(NewError("initdb"), "Error while creating the PostgreSQL instance"),
              dir |-> fs.dir, steps |-> s0]
        ELSE IF hbaSet /\ ~hbaOk
        THEN [err |-> Wrap(NewError("append"), "appending to pg_hba.conf file resulted in an error"),
              dir |-> d0, steps |-> s1]
        ELSE IF confSet /\ ~confOk
        THEN [err |-> Wrap(NewError("append"), "appending to postgresql.conf file resulted in an error"),
              dir |-> d1, steps |-> s2]
        ELSE [err |-> Nil, dir |-> d2, steps |-> s2]

\* CreateDataDirectory removing the data directory when a step after initdb fails
CreateDataDirectoryRollback(i, fs, out) ==
    LET initdbOk == out.initdb /\ ~fs.dir.exists /\ fs.files[i.PasswordFile]
        hbaSet == Len(i.HBARulesFile) # 0
        hbaOk == out.hba /\ fs.files[i.HBARulesFile]
        confSet == Len(i.PostgreSQLConfigFile) # 0
        confOk == out.conf /\ fs.files[i.PostgreSQLConfigFile]
        d0 == FreshDir
        d1 == IF hbaSet THEN AppendFile(d0, "pg_hba", i.HBARulesFile) ELSE d0
        d2 == IF confSet THEN AppendFile(d1, "postgresql_conf", i.PostgreSQLConfigFile) ELSE d1
        d3 == AppendStringToFile(d2, "postgresql_conf", ArchiveStanza)
        s0 == <<"initdb">>
        s1 == IF hbaSet THEN Append(s0, "AppendFile pg_hba.conf") ELSE s0
        s2 == IF confSet THEN Append(s1, "AppendFile postgresql.conf") ELSE s1
        s3 == Append(s2, "AppendStringToFile postgresql.conf")
    IN  IF ~initdbOk
        THEN [err |-> Wrap(NewError("initdb"), "Error while creating the PostgreSQL instance"),
              dir |-> fs.dir, steps |-> s0]
        ELSE IF hbaSet /\ ~hbaOk
        THEN [err |-> Wrap(NewError("append"), "appending to pg_hba.conf file resulted in an error"),
              dir |-> NoDir, steps |-> s1]
        ELSE IF confSet /\ ~confOk
        THEN [err |-> Wrap(NewError("append"), "appending to postgresql.conf file resulted in an error"),
              dir |-> NoDir, steps |-> s2]
        ELSE IF ~out.stanza
        THEN [err |-> Wrap(NewError("append"), "appending to postgresql.conf file resulted in an error"),
              dir |-> NoDir, steps |-> s3]
        ELSE [err |-> Nil, dir |-> d3, steps |-> s3]

\* CreateDataDirectory not checking the error of the append to pg_hba.conf
CreateDataDirectoryIgnoringHbaError(i, fs, out) ==
    LET initdbOk == out.initdb /\ ~fs.dir.exists /\ fs.files[i.PasswordFile]
        hbaSet == Len(i.HBARulesFile) # 0
        hbaOk == out.hba /\ fs.files[i.HBARulesFile]
        confSet == Len(i.PostgreSQLConfigFile) # 0
        confOk == out.conf /\ fs.files[i.PostgreSQLConfigFile]
        d0 == FreshDir
        d1 == IF hbaSet /\ hbaOk THEN AppendFile(d0, "pg_hba", i.HBARulesFile) ELSE d0
        d2 == IF confSet THEN AppendFile(d1, "postgresql_conf", i.PostgreSQLConfigFile) ELSE d1
        d3 == AppendStringToFile(d2, "postgresql_conf", ArchiveStanza)
        s0 == <<"initdb">>
        s1 == IF hbaSet THEN Append(s0, "AppendFile pg_hba.conf") ELSE s0
        s2 == IF confSet THEN Append(s1, "AppendFile postgresql.conf") ELSE s1
        s3 == Append(s2, "AppendStringToFile postgresql.conf")
    IN  IF ~initdbOk
        THEN [err |-> Wrap(NewError("initdb"), "Error while creating the PostgreSQL instance"),
              dir |-> fs.dir, steps |-> s0]
        ELSE IF confSet /\ ~confOk
        THEN [err |-> Wrap(NewError("append"), "appending to postgresql.conf file resulted in an error"),
              dir |-> d1, steps |-> s2]
        ELSE IF ~out.stanza
        THEN [err |-> Wrap(NewError("append"), "appending to postgresql.conf file resulted in an error"),
              dir |-> d2, steps |-> s3]
        ELSE [err |-> Nil, dir |-> d3, steps |-> s3]

CreateDataDirectory(i, fs, out) ==
    LET \* initdb refuses a data directory that exists and needs the password file
        initdbOk == out.initdb /\ ~fs.dir.exists /\ fs.files[i.PasswordFile]
        hbaSet == Len(i.HBARulesFile) # 0
        hbaOk == out.hba /\ fs.files[i.HBARulesFile]
        confSet == Len(i.PostgreSQLConfigFile) # 0
        confOk == out.conf /\ fs.files[i.PostgreSQLConfigFile]
        d0 == FreshDir
        d1 == IF hbaSet THEN AppendFile(d0, "pg_hba", i.HBARulesFile) ELSE d0
        d2 == IF confSet THEN AppendFile(d1, "postgresql_conf", i.PostgreSQLConfigFile) ELSE d1
        d3 == AppendStringToFile(d2, "postgresql_conf", ArchiveStanza)
        s0 == <<"initdb">>
        s1 == IF hbaSet THEN Append(s0, "AppendFile pg_hba.conf") ELSE s0
        s2 == IF confSet THEN Append(s1, "AppendFile postgresql.conf") ELSE s1
        s3 == Append(s2, "AppendStringToFile postgresql.conf")
    IN  IF ~initdbOk
        THEN [err |-> Wrap(NewError("initdb"), "Error while creating the PostgreSQL instance"),
              dir |-> fs.dir, steps |-> s0]
        ELSE IF hbaSet /\ ~hbaOk
        THEN [err |-> Wrap(NewError("append"), "appending to pg_hba.conf file resulted in an error"),
              dir |-> d0, steps |-> s1]
        ELSE IF confSet /\ ~confOk
        THEN [err |-> Wrap(NewError("append"), "appending to postgresql.conf file resulted in an error"),
              dir |-> d1, steps |-> s2]
        ELSE IF ~out.stanza
        THEN [err |-> Wrap(NewError("append"), "appending to postgresql.conf file resulted in an error"),
              dir |-> d2, steps |-> s3]
        ELSE [err |-> Nil, dir |-> d3, steps |-> s3]

----------------------------------------------------------------------------
(* SQL issued on the transient instance *)
QuoteIdentifier(s) == [quote |-> "identifier", value |-> s]
QuoteLiteral(s) == [quote |-> "literal", value |-> s]
Stmt(sql, args) == [sql |-> sql, args |-> args]

\* the steps of ConfigureApplicationEnvironment, in the order of the code
AppEnvSteps == <<"CREATE USER", "ReadFile", "ALTER USER PASSWORD", "CREATE DATABASE",
                 "ALTER SYSTEM SET cluster_name">>

\* the statements of the steps 1..n that are SQL statements
AppEnvStmts(i, n) ==
    LET all == <<
            <<Stmt("CREATE USER %v", <<QuoteIdentifier(i.ApplicationUser)>>)>>,
            <<>>,
            <<Stmt("ALTER USER %v PASSWORD %v",
                   <<QuoteIdentifier(i.ApplicationUser),
                     QuoteLiteral("contents of " \o i.ApplicationPasswordFile)>>)>>,
            <<Stmt("CREATE DATABASE %v OWNER %v",
                   <<QuoteIdentifier(i.ApplicationDatabase),
                     QuoteIdentifier(i.ApplicationUser)>>)>>,
            <<Stmt("ALTER SYSTEM SET cluster_name TO %v",
                   <<QuoteIdentifier(i.ClusterName)>>)>> >>
        F[k \in 0..Len(all)] == IF k = 0 THEN <<>> ELSE F[k - 1] \o all[k]
    IN  F[n]

\* ConfigureApplicationEnvironment going on with the remaining steps after a
\* failing one and returning its error at the end
ConfigureApplicationEnvironmentNoAbort(i, fs, failAt) ==
    LET forced == IF Len(i.ApplicationUser) = 0 THEN 1
                  ELSE IF ~fs.files[i.ApplicationPasswordFile] THEN 2
                  ELSE IF Len(i.ApplicationDatabase) = 0 THEN 4
                  ELSE 0
        at == IF forced # 0 /\ (failAt = 0 \/ forced < failAt) THEN forced ELSE failAt
        all == AppEnvStmts(i, Len(AppEnvSteps))
    IN  IF at = 0
        THEN [err |-> Nil, stmts |-> all, steps |-> AppEnvSteps]
        ELSE [err |-> NewError(AppEnvSteps[at]),
              stmts |-> AppEnvStmts(i, at - 1)
                          \o SubSeq(all, Len(AppEnvStmts(i, at)) + 1, Len(all)),
              steps |-> AppEnvSteps]

\* ConfigureApplicationEnvironment when step failAt fails (0: none does). The
\* server rejects a zero-length identifier, and a missing password file
\* cannot be read.
ConfigureApplicationEnvironment(i, fs, failAt) ==
    LET forced == IF Len(i.ApplicationUser) = 0 THEN 1
                  ELSE IF ~fs.files[i.ApplicationPasswordFile] THEN 2
                  ELSE IF Len(i.ApplicationDatabase) = 0 THEN 4
                  ELSE 0
        at == IF forced # 0 /\ (failAt = 0 \/ forced < failAt) THEN forced ELSE failAt
    IN  IF at = 0
        THEN [err |-> Nil, stmts |-> AppEnvStmts(i, Len(AppEnvSteps)),
              steps |-> AppEnvSteps]
        ELSE [err |-> NewError(AppEnvSteps[at]), stmts |-> AppEnvStmts(i, at - 1),
              steps |-> SubSeq(AppEnvSteps, 1, at)]

ReplicaSteps == <<"ALTER SYSTEM SET primary_conninfo", "ALTER SYSTEM SET recovery_target_timeline">>

ConfigureReplica(i, failAt) ==
    LET primaryConnInfo == <<"host=", i.ParentNode, " user=postgres dbname=", "postgres">>
        all == << Stmt("ALTER SYSTEM SET primary_conninfo TO %v", <<QuoteLiteral(primaryConnInfo)>>),
                  Stmt("ALTER SYSTEM SET recovery_target_timeline TO 'latest'", <<>>) >>
    IN  IF failAt = 0
        THEN [err |-> Nil, stmts |-> all]
        ELSE [err |-> NewError(ReplicaSteps[failAt]), stmts |-> SubSeq(all, 1, failAt - 1)]

----------------------------------------------------------------------------
(* The restore command's collaborators *)

\* the error values info.Restore can return: a CloudRestoreError (retriable or
\* not) or an error of another type, possibly wrapped in or wrapping another
ErrorValues ==
    {[type |-> "CloudRestoreError", retriable |-> TRUE, msg |-> "restore"],
     [type |-> "CloudRestoreError", retriable |-> FALSE, msg |-> "restore"],
     [type |-> "errorString", retriable |-> FALSE, msg |-> "restore"]}
ErrorChains == UNION {[1..n -> ErrorValues] : n \in 1..MaxErrChain}

\* errors.As(err, &barmanError): the first error of the chain that is a
\* CloudRestoreError; found = FALSE when there is none
ErrorsAs(err, type) ==
    LET hits == {k \in 1..Len(err) : err[k].type = type}
    IN  IF hits = {}
        THEN [found |-> FALSE, target |-> [type |-> type, retriable |-> FALSE, msg |-> ""]]
        ELSE [found |-> TRUE, target |-> err[CHOOSE k \in hits : \A j \in hits : k <= j]]

\* what info.Restore can leave in the data directory
PartialDir == [exists |-> TRUE, pg_hba |-> <<>>, postgresql_conf |-> <<>>,
               base |-> <<"restored_part">>]
RestoredDir == [exists |-> TRUE, pg_hba |-> <<"restored_hba">>,
                postgresql_conf |-> <<"restored_conf">>, base |-> <<"restored_base">>]

\* fileutils.RemoveDirectory: removes the directory and its content; when it
\* fails the directory stays, with the content it had or with part of it
RemoveDirectory(dir, rm) ==
    IF ~dir.exists
    THEN \* nothing to remove: no error, or an error that os.IsNotExist recognises
         IF rm = "ok" THEN [err |-> Nil, isNotExist |-> FALSE, dir |-> dir]
         ELSE [err |-> NewError("no such file or directory"), isNotExist |-> TRUE, dir |-> dir]
    ELSE IF rm = "ok" THEN [err |-> Nil, isNotExist |-> FALSE, dir |-> NoDir]
    ELSE IF rm = "fail"
    THEN [err |-> NewError("remove"), isNotExist |-> FALSE, dir |-> dir]
    ELSE [err |-> NewError("remove"), isNotExist |-> FALSE,
          dir |-> [dir EXCEPT !.base = <<>>]]
RemoveOutcomes == {"ok", "fail", "fail partial"}

\* cleanupDataDirectoryIfNeeded removing the directory on every CloudRestoreError
cleanupDataDirectoryOnAnyCloudError(restoreError, dir, rm) ==
    LET as == ErrorsAs(restoreError, "CloudRestoreError")
        r == RemoveDirectory(dir, rm)
    IN  IF ~as.found
        THEN [dir |-> dir, log |-> <<>>]
        ELSE [dir |-> r.dir, log |-> <<"Cleaning up data directory">>]

\* cleanupDataDirectoryIfNeeded returning early on the retriable errors
\* instead of the others
cleanupDataDirectoryInvertedRetriable(restoreError, dir, rm) ==
    LET as == ErrorsAs(restoreError, "CloudRestoreError")
        r == RemoveDirectory(dir, rm)
    IN  IF ~as.found
        THEN [dir |-> dir, log |-> <<>>]
        ELSE IF as.target.retriable
        THEN [dir |-> dir, log |-> <<>>]
        ELSE IF r.err # Nil /\ ~r.isNotExist
        THEN [dir |-> r.dir,
              log |-> <<"Cleaning up data directory",
                        "error occurred cleaning up data directory">>]
        ELSE [dir |-> r.dir, log |-> <<"Cleaning up data directory">>]

\* cleanupDataDirectoryIfNeeded reporting every error of the removal, the
\* missing directory included
cleanupDataDirectoryNoIsNotExistCheck(restoreError, dir, rm) ==
    LET as == ErrorsAs(restoreError, "CloudRestoreError")
        r == RemoveDirectory(dir, rm)
    IN  IF ~as.found
        THEN [dir |-> dir, log |-> <<>>]
        ELSE IF ~as.target.retriable
        THEN [dir |-> dir, log |-> <<>>]
        ELSE IF r.err # Nil
        THEN [dir |-> r.dir,
              log |-> <<"Cleaning up data directory",
                        "error occurred cleaning up data directory">>]
        ELSE [dir |-> r.dir, log |-> <<"Cleaning up data directory">>]

\* cleanupDataDirectoryIfNeeded(ctx, restoreError, dataDirectory): the data
\* directory afterwards and the lines logged
cleanupDataDirectoryIfNeeded(restoreError, dir, rm) ==
    LET as == ErrorsAs(restoreError, "CloudRestoreError")
        r == RemoveDirectory(dir, rm)
    IN  IF ~as.found
        THEN [dir |-> dir, log |-> <<>>]
        ELSE IF ~as.target.retriable
        THEN [dir |-> dir, log |-> <<>>]
        ELSE IF r.err # Nil /\ ~r.isNotExist
        THEN [dir |-> r.dir,
              log |-> <<"Cleaning up data directory",
                        "error occurred cleaning up data directory">>]
        ELSE [dir |-> r.dir, log |-> <<"Cleaning up data directory">>]

----------------------------------------------------------------------------
(* Initial states *)

Versions == MinVersion..MaxVersion

\* the filesystems a bootstrap can meet: each input file there or not (a
\* file the request does not name is left out), the data directory absent or
\* left by an earlier run, and a few paths whose stat fails
FileSystems(i) ==
    {fs \in [files : [FilePaths -> BOOLEAN],
             statFails : SUBSET AllPaths,
             dir : {NoDir, OldDir}] :
        /\ Cardinality(fs.statFails) <= MaxStatFails
        /\ (i.HBARulesFile = "" => ~fs.files["hba"] /\ "hba" \notin fs.statFails)
        /\ (i.PostgreSQLConfigFile = "" => ~fs.files["conf"] /\ "conf" \notin fs.statFails)}

\* the restore command builds InitInfo from its flags (cmd.go:56-61)
RestoreInfo ==
    [PgData |-> "pgdata", PasswordFile |-> "", ApplicationPasswordFile |-> "",
     HBARulesFile |-> "", PostgreSQLConfigFile |-> "", ApplicationUser |-> "",
     ApplicationDatabase |-> "", ParentNode |-> "", ClusterName |-> "cluster"]

InitCommon ==
    /\ trace = <<>>
    /\ verifyResult = VNone
    /\ majorVersion = 0
    /\ instance = "stopped"
    /\ db = <<>>
    /\ fnErr = Nil
    /\ stageFailed = <<>>
    /\ stageErr = Nil
    /\ cancelled = FALSE
    /\ result = Nil
    /\ restoreErr = Nil

InitBootstrap ==
    /\ mode = "bootstrap"
    /\ info \in InitInfos
    /\ fsys \in FileSystems(info)
    /\ pc = "caller"
    /\ wal = NoDir
    /\ InitCommon

InitRestore ==
    /\ mode = "restore"
    /\ info = RestoreInfo
    /\ fsys \in {fs \in [files : {[p \in FilePaths |-> FALSE]}, statFails : {{}},
                          dir : {NoDir, OldDir}] : TRUE}
    /\ pc = "PreRunE"
    /\ wal \in {NoDir, OldDir}
    /\ InitCommon

Init == InitBootstrap \/ InitRestore

----------------------------------------------------------------------------
(* The caller of InitInfo: VerifyConfiguration and Bootstrap are exported       *)
(* methods, and nothing in Bootstrap calls VerifyConfiguration.               *)

Returns(err) == /\ result' = err
                /\ pc' = "done"

\* a VerifyConfiguration that creates the data directory it checks for
VerifyConfigurationCallCreatingDir ==
    /\ mode = "bootstrap" /\ pc = "caller" /\ verifyResult = VNone
    /\ verifyResult' = VerifyConfiguration(info, fsys)
    /\ fsys' = [fsys EXCEPT !.dir = [NoDir EXCEPT !.exists = TRUE]]
    /\ trace' = Append(trace, "VerifyConfiguration")
    /\ UNCHANGED <<cancelled, stageErr, mode, info, pc, majorVersion, instance, db, fnErr, stageFailed,
                   result, restoreErr, wal>>

\* the caller runs info.VerifyConfiguration()
VerifyConfigurationCall ==
    /\ mode = "bootstrap" /\ pc = "caller" /\ verifyResult = VNone
    /\ verifyResult' = VerifyConfiguration(info, fsys)
    /\ trace' = Append(trace, "VerifyConfiguration")
    /\ UNCHANGED <<cancelled, stageErr, mode, info, fsys, pc, majorVersion, instance, db, fnErr,
                   stageFailed, result, restoreErr, wal>>

\* the caller runs info.Bootstrap(): its first stage, CreateDataDirectory
BootstrapCreateDataDirectory ==
    /\ mode = "bootstrap" /\ pc = "caller"
    /\ \E out \in StepOutcomes :
         LET r == CreateDataDirectory(info, fsys, out)
         IN  /\ fsys' = [fsys EXCEPT !.dir = r.dir]
             /\ trace' = trace \o <<"Bootstrap", "CreateDataDirectory">> \o r.steps
             /\ stageErr' = r.err
             /\ IF r.err # Nil
                THEN /\ Returns(r.err)
                     /\ stageFailed' = Append(stageFailed, "CreateDataDirectory")
                ELSE /\ pc' = "GetMajorVersion"
                     /\ UNCHANGED <<result, stageFailed>>
    /\ UNCHANGED <<cancelled, mode, info, verifyResult, majorVersion, instance, db, fnErr,
                   restoreErr, wal>>

\* Bootstrap going on without a major version when its detection fails
BootstrapGetMajorVersionContinuing ==
    /\ mode = "bootstrap" /\ pc = "GetMajorVersion"
    /\ trace' = Append(trace, "GetMajorVersion")
    /\ \/ /\ stageErr' = NewError("GetMajorVersion")
          /\ pc' = "WithActiveInstance"
          /\ UNCHANGED result
          /\ stageFailed' = Append(stageFailed, "GetMajorVersion")
          /\ UNCHANGED majorVersion
       \/ /\ stageErr' = Nil
          /\ \E v \in Versions : majorVersion' = v
          /\ pc' = "WithActiveInstance"
          /\ UNCHANGED <<result, stageFailed>>
    /\ UNCHANGED <<cancelled, mode, info, fsys, verifyResult, instance, db, fnErr, restoreErr, wal>>

\* majorVersion, err := postgres.GetMajorVersion(instance.PgData)
BootstrapGetMajorVersion ==
    /\ mode = "bootstrap" /\ pc = "GetMajorVersion"
    /\ trace' = Append(trace, "GetMajorVersion")
    /\ \/ /\ stageErr' = NewError("GetMajorVersion")
          /\ Returns(Nil)                     \* err != nil: return nil
          /\ stageFailed' = Append(stageFailed, "GetMajorVersion")
          /\ UNCHANGED majorVersion
       \/ /\ stageErr' = Nil
          /\ \E v \in Versions : majorVersion' = v
          /\ pc' = "WithActiveInstance"
          /\ UNCHANGED <<result, stageFailed>>
    /\ UNCHANGED <<cancelled, mode, info, fsys, verifyResult, instance, db, fnErr, restoreErr, wal>>

\* instance.WithActiveInstance(fn): the instance is started; when the startup
\* fails fn is not invoked and the startup error is returned
WithActiveInstanceStartup ==
    /\ mode = "bootstrap" /\ pc = "WithActiveInstance"
    /\ trace' = Append(trace, "Startup")
    /\ \/ /\ Returns(Wrap(NewError("startup"), "Error while activating instance"))
          /\ stageFailed' = Append(stageFailed, "Startup")
          /\ UNCHANGED instance
       \/ /\ instance' = "running"
          /\ pc' = "GetSuperUserDB"
          /\ UNCHANGED <<result, stageFailed>>
    /\ UNCHANGED <<cancelled, stageErr, mode, info, fsys, verifyResult, majorVersion, db, fnErr, restoreErr, wal>>

\* db, err := instance.GetSuperUserDB()
BootstrapGetSuperUserDB ==
    /\ mode = "bootstrap" /\ pc = "GetSuperUserDB"
    /\ trace' = Append(trace, "GetSuperUserDB")
    /\ \/ /\ stageErr' = NewError("GetSuperUserDB")
          /\ fnErr' = Nil                     \* err != nil: return nil
          /\ stageFailed' = Append(stageFailed, "GetSuperUserDB")
          /\ pc' = "Shutdown"
       \/ /\ stageErr' = Nil
          /\ pc' = "ConfigureApplicationEnvironment"
          /\ UNCHANGED <<fnErr, stageFailed>>
    /\ UNCHANGED <<cancelled, mode, info, fsys, verifyResult, majorVersion, instance, db, result,
                   restoreErr, wal>>

\* err = info.ConfigureApplicationEnvironment(db)
BootstrapConfigureApplicationEnvironment ==
    /\ mode = "bootstrap" /\ pc = "ConfigureApplicationEnvironment"
    /\ \E failAt \in 0..Len(AppEnvSteps) :
         LET r == ConfigureApplicationEnvironment(info, fsys, failAt)
         IN  /\ db' = db \o r.stmts
             /\ trace' = trace \o <<"ConfigureApplicationEnvironment">> \o r.steps
             /\ stageErr' = r.err
             /\ fnErr' = Nil
             /\ IF r.err # Nil
                THEN /\ stageFailed' = Append(stageFailed, "ConfigureApplicationEnvironment")
                     /\ pc' = "Shutdown"          \* err != nil: return nil
                ELSE /\ UNCHANGED stageFailed
                     /\ pc' = IF majorVersion >= ReplicaMinVersion
                              THEN "ConfigureReplica"
                              ELSE "Shutdown"     \* return nil
    /\ UNCHANGED <<cancelled, mode, info, fsys, verifyResult, majorVersion, instance, result,
                   restoreErr, wal>>

\* err = info.ConfigureReplica(db); return err
BootstrapConfigureReplica ==
    /\ mode = "bootstrap" /\ pc = "ConfigureReplica"
    /\ \E failAt \in 0..Len(ReplicaSteps) :
         LET r == ConfigureReplica(info, failAt)
         IN  /\ db' = db \o r.stmts
             /\ trace' = Append(trace, "ConfigureReplica")
             /\ stageErr' = r.err
             /\ fnErr' = r.err
             /\ stageFailed' = IF r.err # Nil
                               THEN Append(stageFailed, "ConfigureReplica")
                               ELSE stageFailed
    /\ pc' = "Shutdown"
    /\ UNCHANGED <<cancelled, mode, info, fsys, verifyResult, majorVersion, instance, result,
                   restoreErr, wal>>

\* WithActiveInstance stops the instance and returns what fn returned, which
\* Bootstrap returns in turn
WithActiveInstanceShutdown ==
    /\ mode = "bootstrap" /\ pc = "Shutdown"
    /\ instance' = "stopped"
    /\ trace' = Append(trace, "Shutdown")
    /\ Returns(fnErr)
    /\ UNCHANGED <<cancelled, stageErr, mode, info, fsys, verifyResult, majorVersion, db, fnErr, stageFailed,
                   restoreErr, wal>>

----------------------------------------------------------------------------
(* The restore command: cobra runs PreRunE, RunE and PostRunE in this order  *)
(* and returns the first error one of them returns.                        *)

\* PreRunE: management.WaitForGetCluster
PreRunE ==
    /\ mode = "restore" /\ pc = "PreRunE"
    /\ trace' = Append(trace, "WaitForGetCluster")
    /\ \/ Returns(NewError("WaitForGetCluster"))
       \/ pc' = "RunE" /\ UNCHANGED result
    /\ UNCHANGED <<cancelled, stageErr, mode, info, fsys, verifyResult, majorVersion, instance, db, fnErr,
                   stageFailed, restoreErr, wal>>

\* restoreSubCommand going on to info.Restore when the validation failed
restoreCheckTargetDataDirectoryNoReturn ==
    /\ mode = "restore" /\ pc = "RunE"
    /\ trace' = Append(trace, "CheckTargetDataDirectory")
    /\ \/ /\ pc' = "Restore"
          /\ stageFailed' = Append(stageFailed, "CheckTargetDataDirectory")
          /\ UNCHANGED result
       \/ pc' = "Restore" /\ UNCHANGED <<result, stageFailed>>
    /\ UNCHANGED <<cancelled, stageErr, mode, info, fsys, verifyResult, majorVersion, instance, db, fnErr,
                   restoreErr, wal>>

\* RunE -> restoreSubCommand: err := info.CheckTargetDataDirectory(ctx)
restoreCheckTargetDataDirectory ==
    /\ mode = "restore" /\ pc = "RunE"
    /\ trace' = Append(trace, "CheckTargetDataDirectory")
    /\ \/ /\ Returns(NewError("CheckTargetDataDirectory"))
          /\ stageFailed' = Append(stageFailed, "CheckTargetDataDirectory")
       \/ pc' = "Restore" /\ UNCHANGED <<result, stageFailed>>
    /\ UNCHANGED <<cancelled, stageErr, mode, info, fsys, verifyResult, majorVersion, instance, db, fnErr,
                   restoreErr, wal>>

\* err = info.Restore(ctx): the collaborator fills the data directory (and the
\* WAL directory); when it fails it leaves them as they were, partly
\* written, or gone
restoreRestore ==
    /\ mode = "restore" /\ pc = "Restore"
    /\ trace' = Append(trace, "Restore")
    /\ \/ /\ restoreErr' = Nil
          /\ fsys' = [fsys EXCEPT !.dir = RestoredDir]
          /\ wal' \in {wal, RestoredDir}
          /\ pc' = "PostRunE"                  \* return nil
       \/ /\ restoreErr' \in ErrorChains
          /\ \E d \in {fsys.dir, PartialDir, NoDir} : fsys' = [fsys EXCEPT !.dir = d]
          /\ wal' \in {wal, PartialDir}
          /\ pc' = "cleanup"
    /\ UNCHANGED <<cancelled, stageErr, mode, info, verifyResult, majorVersion, instance, db, fnErr,
                   stageFailed, result>>

\* restoreSubCommand running info.Restore again after cleaning up
restoreCleanupRetrying ==
    /\ mode = "restore" /\ pc = "cleanup"
    /\ \E rm \in RemoveOutcomes :
         LET c == cleanupDataDirectoryIfNeeded(restoreErr, fsys.dir, rm)
         IN  /\ fsys' = [fsys EXCEPT !.dir = c.dir]
             /\ trace' = trace \o <<"Error while restoring a backup">> \o c.log
             /\ IF c.log # <<>>
                THEN pc' = "Restore" /\ UNCHANGED result
                ELSE Returns(restoreErr)
    /\ UNCHANGED <<cancelled, stageErr, mode, info, verifyResult, majorVersion, instance, db, fnErr,
                   stageFailed, restoreErr, wal>>

\* restoreSubCommand cleaning the WAL directory together with the data directory
restoreCleanupRemovingWal ==
    /\ mode = "restore" /\ pc = "cleanup"
    /\ \E rm \in RemoveOutcomes :
         LET c == cleanupDataDirectoryIfNeeded(restoreErr, fsys.dir, rm)
         IN  /\ fsys' = [fsys EXCEPT !.dir = c.dir]
             /\ wal' = IF c.log # <<>> THEN RemoveDirectory(wal, rm).dir ELSE wal
             /\ trace' = trace \o <<"Error while restoring a backup">> \o c.log
    /\ Returns(restoreErr)
    /\ UNCHANGED <<cancelled, stageErr, mode, info, verifyResult, majorVersion, instance, db, fnErr,
                   stageFailed, restoreErr>>

\* if err != nil: log, cleanupDataDirectoryIfNeeded(ctx, err, info.PgData), return err
restoreCleanup ==
    /\ mode = "restore" /\ pc = "cleanup"
    /\ \E rm \in RemoveOutcomes :
         LET c == cleanupDataDirectoryIfNeeded(restoreErr, fsys.dir, rm)
         IN  /\ fsys' = [fsys EXCEPT !.dir = c.dir]
             /\ trace' = trace \o <<"Error while restoring a backup">> \o c.log
    /\ Returns(restoreErr)
    /\ UNCHANGED <<cancelled, stageErr, mode, info, verifyResult, majorVersion, instance, db, fnErr,
                   stageFailed, restoreErr, wal>>

\* PostRunE: if err := istio.TryInvokeQuitEndpoint(ctx); err != nil { return err }
PostRunEIstio ==
    /\ mode = "restore" /\ pc = "PostRunE"
    /\ trace' = Append(trace, "istio.TryInvokeQuitEndpoint")
    /\ \/ Returns(NewError("istio"))
       \/ pc' = "linkerd" /\ UNCHANGED result
    /\ UNCHANGED <<cancelled, stageErr, mode, info, fsys, verifyResult, majorVersion, instance, db, fnErr,
                   stageFailed, restoreErr, wal>>

\* PostRunE: return linkerd.TryInvokeShutdownEndpoint(ctx)
PostRunELinkerd ==
    /\ mode = "restore" /\ pc = "linkerd"
    /\ trace' = Append(trace, "linkerd.TryInvokeShutdownEndpoint")
    /\ \/ Returns(NewError("linkerd"))
       \/ Returns(Nil)
    /\ UNCHANGED <<cancelled, stageErr, mode, info, fsys, verifyResult, majorVersion, instance, db, fnErr,
                   stageFailed, restoreErr, wal>>

----------------------------------------------------------------------------
(* The external cancellation signal: the context of the restore command is  *)
(* cancelled (cmd.Context()), or the process running Bootstrap is told to   *)
(* stop. Bootstrap takes no context and restoreSubCommand never reads       *)
(* ctx.Err(): the signal changes nothing but what the collaborators make    *)
(* of it, and these may fail or carry on.                                   *)
Cancel ==
    /\ ~cancelled /\ pc # "done"
    /\ cancelled' = TRUE
    /\ trace' = Append(trace, "Cancel")
    /\ UNCHANGED <<mode, info, fsys, pc, verifyResult, majorVersion, instance, db,
                   fnErr, stageFailed, stageErr, result, restoreErr, wal>>

----------------------------------------------------------------------------
Next ==
    \/ Cancel
    \/ VerifyConfigurationCall
    \/ BootstrapCreateDataDirectory
    \/ BootstrapGetMajorVersion
    \/ WithActiveInstanceStartup
    \/ BootstrapGetSuperUserDB
    \/ BootstrapConfigureApplicationEnvironment
    \/ BootstrapConfigureReplica
    \/ WithActiveInstanceShutdown
    \/ PreRunE
    \/ restoreCheckTargetDataDirectory
    \/ restoreRestore
    \/ restoreCleanup
    \/ PostRunEIstio
    \/ PostRunELinkerd

Spec == Init /\ [][Next]_vars

----------------------------------------------------------------------------
(* Vocabulary of the properties *)

Contains(seq, x) == \E k \in 1..Len(seq) : seq[k] = x
Count(seq, x) == Cardinality({k \in 1..Len(seq) : seq[k] = x})
\* x occurs in seq and every occurrence of y comes before the first x
Before(seq, y, x) ==
    /\ Contains(seq, x)
    /\ \A k, j \in 1..Len(seq) : seq[k] = y /\ seq[j] = x => k < j

\* the seven rules of a valid request, each stated on the request and the
\* filesystem: a file "exists" when its stat succeeds and finds it
Present(fs, path) == path \notin fs.statFails /\ fs.files[path]
RuleHolds(k, i, fs) ==
    CASE k = 1 -> Present(fs, i.PasswordFile)
      [] k = 2 -> Present(fs, i.ApplicationPasswordFile)
      [] k = 3 -> i.PgData \notin fs.statFails /\ ~fs.dir.exists
      [] k = 4 -> i.HBARulesFile = "" \/ Present(fs, i.HBARulesFile)
      [] k = 5 -> i.PostgreSQLConfigFile = "" \/ Present(fs, i.PostgreSQLConfigFile)
      [] k = 6 -> i.ApplicationUser # ""
      [] k = 7 -> i.ApplicationDatabase # ""
Rules == {1, 2, 3, 4, 5, 6, 7}
Violated(i, fs) == {k \in Rules : ~RuleHolds(k, i, fs)}
ValidRequest(i, fs) == Violated(i, fs) = {}

\* the classification of a restore error: that of the outermost
\* CloudRestoreError of its chain
RECURSIVE Classify(_)
Classify(err) ==
    IF err = <<>> THEN "Unclassified"
    ELSE IF Head(err).type = "CloudRestoreError"
    THEN (IF Head(err).retriable THEN "Retriable" ELSE "Terminal")
    ELSE Classify(Tail(err))

BootstrapDone == mode = "bootstrap" /\ pc = "done"
RestoreDone == mode = "restore" /\ pc = "done"
\* info.Restore returned nil
RestoreSucceeded == mode = "restore" /\ Contains(trace, "Restore") /\ restoreErr = Nil
\* info.Restore returned an error
RestoreFailed == mode = "restore" /\ restoreErr # Nil
\* the step in which restoreSubCommand handles the error of info.Restore
CleanupStep == mode = "restore" /\ pc = "cleanup" /\ pc' = "done"

----------------------------------------------------------------------------
(* C1 *)

----------------------------------------------------------------------------
(* C2 *)

\* C2: a failing stage halts Bootstrap and its error is returned: Bootstrap
\* returns nil exactly when no stage failed, and at most one stage fails.
C2_StageFailureIsReturned ==
    BootstrapDone =>
        /\ Len(stageFailed) <= 1
        /\ (stageFailed # <<>> <=> result # Nil)

----------------------------------------------------------------------------
(* C3 *)

\* C3 (as stated): after a retriable restore failure the command returns an
\* error and the data directory no longer exists.
C3_RetriableRemovesDirectory ==
    (RestoreDone /\ Classify(restoreErr) = "Retriable") =>
        /\ result # Nil
        /\ ~fsys.dir.exists

\* C3 (amended): after a retriable restore failure the command returns an
\* error, the removal of the data directory has been attempted, and the
\* directory no longer exists unless the removal itself failed, which is
\* logged.
C3_RetriableRemovesDirectoryUnlessRemovalFails ==
    (RestoreDone /\ Classify(restoreErr) = "Retriable") =>
        /\ result # Nil
        /\ Contains(trace, "Cleaning up data directory")
        /\ (fsys.dir.exists =>
              Contains(trace, "error occurred cleaning up data directory"))

C3_Witness ==
    /\ RestoreDone /\ Classify(restoreErr) = "Retriable"
    /\ Len(restoreErr) = 2 /\ restoreErr[1].type # "CloudRestoreError"
    /\ ~fsys.dir.exists
    /\ wal = PartialDir
    /\ result # Nil

----------------------------------------------------------------------------
(* C4 *)

\* C4: when info.Restore fails with a terminal or unclassified error, the
\* handling of the error removes nothing: the data directory (and the rest
\* of the filesystem) is as info.Restore left it.
C4_OnlyRetriableTriggersCleanup ==
    [][(CleanupStep /\ Classify(restoreErr) \in {"Terminal", "Unclassified"}) =>
          /\ fsys' = fsys
          /\ wal' = wal
          /\ ~Contains(trace', "Cleaning up data directory")]_vars

C4_Witness ==
    /\ RestoreDone /\ Classify(restoreErr) = "Terminal"
    /\ fsys.dir = PartialDir
    /\ result = restoreErr

----------------------------------------------------------------------------
(* C5 *)

\* C5: a Bootstrap that returns ok on an engine of major version >= 12 has
\* invoked ConfigureReplica exactly once; on a version < 12 it never did.
C5_ReplicaConfiguredOnceFrom12 ==
    (BootstrapDone /\ result = Nil /\ majorVersion \in Versions) =>
        Count(trace, "ConfigureReplica")
            = (IF majorVersion >= ReplicaMinVersion THEN 1 ELSE 0)

----------------------------------------------------------------------------
(* C6 *)

\* C6: VerifyConfiguration returns the error of the first of the seven rules
\* that is violated, in the order 1..7, and ok exactly when all seven hold.
C6_FirstViolatedRuleWins ==
    (mode = "bootstrap" /\ pc = "caller" /\ verifyResult # VNone) =>
        /\ (verifyResult = VNil <=> ValidRequest(info, fsys))
        /\ (verifyResult # VNil =>
              /\ verifyResult.check \in Violated(info, fsys)
              /\ \A k \in Violated(info, fsys) : verifyResult.check <= k)

C6_Witness ==
    /\ mode = "bootstrap" /\ pc = "caller"
    /\ verifyResult = VErr(4, "rule")
    /\ Violated(info, fsys) = {4, 5, 7}

----------------------------------------------------------------------------
(* C7 *)

\* C7: VerifyConfiguration returns an error whenever the data directory
\* exists, and it changes neither the filesystem nor any process.
C7_VerifyRejectsExistingAndMutatesNothing ==
    [][(verifyResult = VNone /\ verifyResult' # VNone) =>
          /\ (fsys.dir.exists => verifyResult' # VNil)
          /\ fsys' = fsys
          /\ wal' = wal
          /\ instance' = instance
          /\ db' = db]_vars

C7_Witness ==
    /\ mode = "bootstrap" /\ pc = "caller"
    /\ verifyResult = VErr(3, "rule")
    /\ fsys.dir = OldDir

----------------------------------------------------------------------------
(* C8 *)

\* CreateDataDirectory has returned ok
CreateDataDirectoryOk ==
    /\ mode = "bootstrap"
    /\ Contains(trace, "CreateDataDirectory")
    /\ ~Contains(stageFailed, "CreateDataDirectory")

\* C8: whenever CreateDataDirectory returns ok, the archiving stanza has been
\* appended to postgresql.conf (after what initdb and the extra
\* configuration put there), whatever optional files the request names.
C8_ArchivingStanzaAlwaysAppended ==
    CreateDataDirectoryOk =>
        LET conf == fsys.dir.postgresql_conf
        IN  /\ Len(conf) >= 2
            /\ conf[Len(conf)] = ArchiveStanza
            /\ conf[1] = "initdb_conf"
            /\ Count(conf, ArchiveStanza) = 1

C8_Witness ==
    /\ CreateDataDirectoryOk
    /\ info.PostgreSQLConfigFile = "" /\ info.HBARulesFile = ""
    /\ fsys.dir.postgresql_conf = <<"initdb_conf", ArchiveStanza>>

----------------------------------------------------------------------------
(* C9 *)

\* C9: when the restore itself succeeded, the command does not return an
\* error, whatever the sidecar notifications do.
C9_SidecarFailureDoesNotOverride ==
    (RestoreDone /\ RestoreSucceeded) => result = Nil

----------------------------------------------------------------------------
(* C10 *)

\* C10: when the restore succeeded and the command has returned, both the
\* istio quit endpoint and the linkerd shutdown endpoint have been invoked,
\* each after info.Restore returned.
C10_EverySidecarNotifiedAfterRestore ==
    (RestoreDone /\ RestoreSucceeded) =>
        /\ Before(trace, "Restore", "istio.TryInvokeQuitEndpoint")
        /\ Before(trace, "Restore", "linkerd.TryInvokeShutdownEndpoint")

----------------------------------------------------------------------------
(* C11 *)

\* the stages of the two sequences, as they appear in the trace when started
Stages == {"CreateDataDirectory", "GetMajorVersion", "Startup", "GetSuperUserDB",
           "ConfigureApplicationEnvironment", "ConfigureReplica",
           "CheckTargetDataDirectory", "Restore"}
\* the stages started after the cancellation signal was raised
StartedAfterCancel ==
    {j \in 1..Len(trace) :
        /\ trace[j] \in Stages
        /\ \E k \in 1..(j - 1) : trace[k] = "Cancel"}

\* C11: once the cancellation signal is raised no further stage starts: at
\* most the stage in flight when it was raised completes after it (so
\* info.Restore is not started when the signal came before or during the
\* target validation, and Bootstrap starts nothing after the stage in flight).
C11_NoStageStartsAfterCancel ==
    Cardinality(StartedAfterCancel) <= 1

----------------------------------------------------------------------------
(* C12 *)

PrefixOf(a, b) == Len(a) <= Len(b) /\ SubSeq(b, 1, Len(a)) = a
\* everything of directory d is still there in directory e
DirKept(d, e) ==
    /\ (d.exists => e.exists)
    /\ PrefixOf(d.pg_hba, e.pg_hba)
    /\ PrefixOf(d.postgresql_conf, e.postgresql_conf)
    /\ PrefixOf(d.base, e.base)
\* the steps of CreateDataDirectory that a step of the model ran, from the trace
StepsRun == SubSeq(trace', Len(trace) + 3, Len(trace'))
CreateDataDirectoryStep == mode = "bootstrap" /\ pc = "caller" /\ pc' # "caller"

\* C12: no step of Bootstrap removes anything from the data directory, and
\* when CreateDataDirectory fails after initdb, what initdb and the completed
\* appends wrote is still there.
C12_FailureKeepsDataDirectory ==
    /\ [][mode = "bootstrap" => DirKept(fsys.dir, fsys'.dir)]_vars
    /\ [][(CreateDataDirectoryStep /\ stageFailed' # <<>> /\ Len(StepsRun) > 1) =>
            /\ DirKept(FreshDir, fsys'.dir)
            /\ (\E k \in 1..(Len(StepsRun) - 1) : StepsRun[k] = "AppendFile pg_hba.conf")
                  => Contains(fsys'.dir.pg_hba, "contents of hba")
            /\ (\E k \in 1..(Len(StepsRun) - 1) : StepsRun[k] = "AppendFile postgresql.conf")
                  => Contains(fsys'.dir.postgresql_conf, "contents of conf")]_vars

C12_Witness ==
    /\ BootstrapDone
    /\ stageFailed = <<"CreateDataDirectory">>
    /\ result # Nil
    /\ fsys.dir.pg_hba = <<"initdb_hba", "contents of hba">>
    /\ fsys.dir.postgresql_conf = <<"initdb_conf", "contents of conf">>

----------------------------------------------------------------------------
(* C13 *)

\* C13: info.Restore is invoked at most once in one invocation of the
\* command, whatever it returns, and once the error has been handled the
\* command has returned.
C13_RestoreInvokedAtMostOnce ==
    /\ Count(trace, "Restore") <= 1
    /\ (RestoreFailed => pc \in {"cleanup", "done"})
    /\ (RestoreFailed /\ Contains(trace, "Error while restoring a backup") => pc = "done")

C13_Witness ==
    /\ RestoreDone /\ Classify(restoreErr) = "Retriable"
    /\ Contains(trace, "Cleaning up data directory")
    /\ Count(trace, "Restore") = 1

----------------------------------------------------------------------------
(* C14 *)

VersionDetectionFailed == mode = "bootstrap" /\ Contains(stageFailed, "GetMajorVersion")

----------------------------------------------------------------------------
(* C15 *)

\* C15: when info.Restore fails, restoreSubCommand returns exactly the error
\* info.Restore returned, whatever the cleanup does: a failing removal is
\* only logged, and a directory that is already missing is not even logged
\* as an error.
C15_RestoreErrorReturnedUnchanged ==
    [][CleanupStep =>
          /\ result' = restoreErr
          /\ restoreErr' = restoreErr
          /\ result' # Nil
          /\ (~fsys.dir.exists =>
                ~Contains(trace', "error occurred cleaning up data directory"))]_vars

C15_Witness ==
    /\ RestoreDone /\ RestoreFailed
    /\ result = restoreErr
    /\ Contains(trace, "error occurred cleaning up data directory")
    /\ fsys.dir.exists

----------------------------------------------------------------------------
(* C16 *)

ValidationFailed == mode = "restore" /\ Contains(stageFailed, "CheckTargetDataDirectory")

\* C16: info.Restore is started only after a successful validation: when
\* CheckTargetDataDirectory fails the command has returned the validation
\* error, info.Restore is never invoked, no cleanup is attempted, and the
\* validation step changes neither the data directory nor the WAL directory.
C16_RestoreOnlyAfterSuccessfulValidation ==
    /\ [](ValidationFailed =>
            /\ pc = "done"
            /\ result = NewError("CheckTargetDataDirectory")
            /\ ~Contains(trace, "Restore")
            /\ ~Contains(trace, "Error while restoring a backup")
            /\ ~Contains(trace, "Cleaning up data directory"))
    /\ [](mode = "restore" /\ Contains(trace, "Restore") =>
            Before(trace, "CheckTargetDataDirectory", "Restore"))
    /\ [][(mode = "restore" /\ pc = "RunE") => (fsys' = fsys /\ wal' = wal)]_vars

C16_Witness ==
    /\ RestoreDone /\ ValidationFailed
    /\ fsys.dir = OldDir
    /\ wal = OldDir

----------------------------------------------------------------------------
(* C17 *)

\* the order of the steps of ConfigureApplicationEnvironment the interface gives
AppEnvOrder == <<"CREATE USER", "ReadFile", "ALTER USER PASSWORD", "CREATE DATABASE",
                 "ALTER SYSTEM SET cluster_name">>
\* the statements the completed steps leave committed, in order
RECURSIVE CommittedSql(_)
CommittedSql(steps) ==
    IF steps = <<>> THEN <<>>
    ELSE LET sql == CASE Head(steps) = "CREATE USER" -> <<"CREATE USER %v">>
                      [] Head(steps) = "ReadFile" -> <<>>
                      [] Head(steps) = "ALTER USER PASSWORD" -> <<"ALTER USER %v PASSWORD %v">>
                      [] Head(steps) = "CREATE DATABASE" -> <<"CREATE DATABASE %v OWNER %v">>
                      [] Head(steps) = "ALTER SYSTEM SET cluster_name"
                            -> <<"ALTER SYSTEM SET cluster_name TO %v">>
         IN  sql \o CommittedSql(Tail(steps))
AppEnvStep ==
    /\ mode = "bootstrap"
    /\ pc = "ConfigureApplicationEnvironment" /\ pc' # "ConfigureApplicationEnvironment"
\* the steps the call ran (after its own entry in the trace) and the
\* statements it committed
AppEnvRun == SubSeq(trace', Len(trace) + 2, Len(trace'))
AppEnvCommitted == SubSeq(db', Len(db) + 1, Len(db'))

\* C17: the steps ConfigureApplicationEnvironment runs are a prefix of CREATE
\* USER, read password file, ALTER USER PASSWORD, CREATE DATABASE, ALTER
\* SYSTEM SET cluster_name; the first failing step is the last one run, its
\* error is returned as it is, and the statements of the steps before it
\* stay committed.
C17_AppEnvStepsArePrefixAndFirstFailureAborts ==
    [][AppEnvStep =>
          /\ Len(AppEnvRun) >= 1
          /\ PrefixOf(AppEnvRun, AppEnvOrder)
          /\ PrefixOf(db, db')
          /\ IF stageErr' = Nil
             THEN /\ AppEnvRun = AppEnvOrder
                  /\ [k \in 1..Len(AppEnvCommitted) |-> AppEnvCommitted[k].sql]
                        = CommittedSql(AppEnvOrder)
             ELSE /\ stageErr' = NewError(AppEnvRun[Len(AppEnvRun)])
                  /\ [k \in 1..Len(AppEnvCommitted) |-> AppEnvCommitted[k].sql]
                        = CommittedSql(SubSeq(AppEnvRun, 1, Len(AppEnvRun) - 1))]_vars

C17_Witness ==
    /\ mode = "bootstrap"
    /\ stageErr = NewError("CREATE DATABASE")
    /\ Len(db) = 2
    /\ db[1].sql = "CREATE USER %v" /\ db[2].sql = "ALTER USER %v PASSWORD %v"
    /\ trace[Len(trace)] = "CREATE DATABASE"

----------------------------------------------------------------------------
(* C18 *)

\* the steps of CreateDataDirectory for a request, in the order of the interface
CreateDataDirectoryOrder(i) ==
    <<"initdb">>
    \o (IF i.HBARulesFile # "" THEN <<"AppendFile pg_hba.conf">> ELSE <<>>)
    \o (IF i.PostgreSQLConfigFile # "" THEN <<"AppendFile postgresql.conf">> ELSE <<>>)
    \o <<"AppendStringToFile postgresql.conf">>
\* the data directory after the completed steps done, starting from dir
AfterSteps(dir, done) ==
    IF done = <<>> THEN dir
    ELSE [exists |-> TRUE,
          base |-> <<"initdb_base">>,
          pg_hba |-> <<"initdb_hba">>
              \o (IF Contains(done, "AppendFile pg_hba.conf")
                  THEN <<"contents of hba">> ELSE <<>>),
          postgresql_conf |-> <<"initdb_conf">>
              \o (IF Contains(done, "AppendFile postgresql.conf")
                  THEN <<"contents of conf">> ELSE <<>>)
              \o (IF Contains(done, "AppendStringToFile postgresql.conf")
                  THEN <<ArchiveStanza>> ELSE <<>>)]

\* C18: CreateDataDirectory runs initdb, the append to pg_hba.conf (if
\* supplied), the append to postgresql.conf (if supplied) and the append of
\* the archiving stanza in this order; a failing step is the last one run, it
\* makes the operation return an error, and the data directory holds what
\* the steps before it wrote and nothing more (nothing when initdb failed).
C18_CreateDataDirectoryAbortsAtFirstFailure ==
    [][CreateDataDirectoryStep =>
          /\ Len(StepsRun) >= 1
          /\ PrefixOf(StepsRun, CreateDataDirectoryOrder(info))
          /\ IF stageErr' = Nil
             THEN /\ StepsRun = CreateDataDirectoryOrder(info)
                  /\ fsys'.dir = AfterSteps(fsys.dir, StepsRun)
                  /\ pc' = "GetMajorVersion"
             ELSE /\ fsys'.dir = AfterSteps(fsys.dir, SubSeq(StepsRun, 1, Len(StepsRun) - 1))
                  /\ pc' = "done"
                  /\ result' = stageErr']_vars

C18_Witness ==
    /\ BootstrapDone
    /\ stageFailed = <<"CreateDataDirectory">>
    /\ trace[Len(trace)] = "AppendFile pg_hba.conf"
    /\ info.PostgreSQLConfigFile # ""
    /\ fsys.dir = FreshDir

----------------------------------------------------------------------------
(* C19 *)

\* the form in which the interface wants the values of each statement quoted
QuotingOf(sql) ==
    CASE sql = "CREATE USER %v" -> <<"identifier">>
      [] sql = "ALTER USER %v PASSWORD %v" -> <<"identifier", "literal">>
      [] sql = "CREATE DATABASE %v OWNER %v" -> <<"identifier", "identifier">>
      [] sql = "ALTER SYSTEM SET cluster_name TO %v" -> <<"literal">>
      [] sql = "ALTER SYSTEM SET primary_conninfo TO %v" -> <<"literal">>
      [] OTHER -> <<>>

\* C19: every value interpolated into a statement is quoted in the form the
\* interface prescribes: role and database names as identifiers, the
\* password, the cluster_name value and the primary_conninfo value as
\* literals.
C19_ValuesQuotedAsPrescribed ==
    \A k \in 1..Len(db) :
        [a \in 1..Len(db[k].args) |-> db[k].args[a].quote] = QuotingOf(db[k].sql)

----------------------------------------------------------------------------
(* C20 *)

\* C20: nothing in the restore command but info.Restore itself changes the
\* WAL directory: the cleanup after a failure, the retriable one included,
\* removes the data directory only and leaves the WAL directory as
\* info.Restore left it.
C20_CleanupLeavesWalDirectory ==
    [][(mode = "restore" /\ pc # "Restore") => wal' = wal]_vars

C20_Witness ==
    /\ RestoreDone /\ Classify(restoreErr) = "Retriable"
    /\ Len(restoreErr) = 1
    /\ Contains(trace, "Cleaning up data directory")
    /\ ~Contains(trace, "error occurred cleaning up data directory")
    /\ ~fsys.dir.exists
    /\ wal = PartialDir

====
